---- MODULE Spec2Model ----
(***************************************************************************)
(* Model of backend/litematic_generator.py (class LitematicGenerator):     *)
(* the layout planner, the flat block-index array with its coordinate ->   *)
(* index mapping, the builders that write into it, and generate_projection *)
(* with its result record.                                                 *)
(*                                                                         *)
(* Python lists are modelled as TLA+ sequences: Python index i is position *)
(* i+1, and a negative Python index i addresses position Len + i + 1.      *)
(***************************************************************************)
EXTENDS Integers, Sequences, FiniteSets, TLC

VARIABLES
    pc,             \* position of the generation call
    redstone_notes, \* argument: the event list
    format_type,    \* argument: the format tag
    config,         \* argument: configuration [height, max_width, max_length]
    layout,         \* layout record of _calculate_optimal_layout, NoLayout before
    file_path,      \* destination path with the suffix chosen for the format
    block_states,   \* the flat block-index array (a Python list)
    tile_entities,  \* the block-entity list
    row_idx,        \* loop variable of the row loop
    stats,          \* <<>> or <<s>>: what the format generator returned
    exc,            \* "none" or the exception that was raised
    fs,             \* the file system at the destination: <<>> or <<file>>
    litematic_data, \* <<>> or <<d>>: the structure handed to the file write
    result,         \* <<>> or <<r>>: the record generate_projection returned
    probe           \* last coordinate written and read back (accessor harness)

vars == <<pc, redstone_notes, format_type, config, layout, file_path,
          block_states, tile_entities, row_idx, stats, exc, fs, litematic_data,
          result, probe>>

----------------------------------------------------------------------------
(* Bounds of the model                                                      *)

MaxBurst == 17      \* largest number of events sharing one time in a planner input
MaxShort == 2       \* exhaustive event lists have at most this many events
MaxRamp == 12       \* longest evenly spaced event list given to the pipeline
MaxDim == 3         \* largest width/height/length of the accessor harness
MaxFileKB == 1      \* largest size in KB of a written file
MaxProbes == 1      \* writes per run of the accessor harness

----------------------------------------------------------------------------
(* Arithmetic as Python computes it                                         *)

Min2(a, b) == IF a <= b THEN a ELSE b
Max2(a, b) == IF a >= b THEN a ELSE b

\* int(a / b) for b > 0: truncation toward zero
TruncDiv(a, b) == IF a >= 0 THEN a \div b ELSE -((-a) \div b)

\* Variant: floor division instead of math.ceil
CeilDivFloored(a, b) == a \div b

\* math.ceil(a / b) for b > 0
CeilDiv(a, b) == -((-a) \div b)

SeqMin(s) == CHOOSE m \in {s[i] : i \in DOMAIN s} : \A i \in DOMAIN s : m <= s[i]
SeqMax(s) == CHOOSE m \in {s[i] : i \in DOMAIN s} : \A i \in DOMAIN s : m >= s[i]

\* times = [note.get('time_ticks', 0) for note in notes]
Times(notes) == [i \in DOMAIN notes |-> notes[i].time_ticks]

----------------------------------------------------------------------------
(* Palette registry                                                         *)

palette ==
    << "minecraft:air",
       "minecraft:stone",
       "minecraft:note_block",
       "minecraft:redstone_wire",
       "minecraft:repeater[facing=south,delay=1,locked=false,powered=false]",
       "minecraft:repeater[facing=west,delay=1,locked=false,powered=false]",
       "minecraft:repeater[facing=north,delay=1,locked=false,powered=false]",
       "minecraft:repeater[facing=east,delay=1,locked=false,powered=false]",
       "minecraft:redstone_block",
       "minecraft:redstone_torch[lit=true]",
       "minecraft:redstone_wall_torch[facing=north,lit=true]",
       "minecraft:redstone_wall_torch[facing=south,lit=true]",
       "minecraft:redstone_wall_torch[facing=west,lit=true]",
       "minecraft:redstone_wall_torch[facing=east,lit=true]",
       "minecraft:lever[face=wall,facing=north,powered=false]",
       "minecraft:oak_planks",
       "minecraft:glass",
       "minecraft:quartz_block",
       "minecraft:iron_block",
       "minecraft:glowstone",
       "minecraft:sea_lantern",
       "minecraft:redstone_lamp[lit=false]",
       "minecraft:piston[extended=false,facing=up]",
       "minecraft:sticky_piston[extended=false,facing=up]",
       "minecraft:observer[facing=up,powered=false]" >>

\* block in self.block_to_index
InPalette(block) == \E i \in DOMAIN palette : palette[i] = block

\* self.block_to_index[block]: the 0-based position in the palette
block_to_index(block) == (CHOOSE i \in DOMAIN palette : palette[i] = block) - 1

instrument_colors ==
    [ harp |-> "minecraft:oak_planks",
      bass |-> "minecraft:stone",
      snare |-> "minecraft:sandstone",
      hat |-> "minecraft:glass",
      bassdrum |-> "minecraft:obsidian",
      bell |-> "minecraft:gold_block",
      flute |-> "minecraft:clay",
      chime |-> "minecraft:packed_ice",
      guitar |-> "minecraft:white_wool",
      xylophone |-> "minecraft:bone_block",
      iron_xylophone |-> "minecraft:iron_block",
      cow_bell |-> "minecraft:soul_sand",
      didgeridoo |-> "minecraft:brown_wool",
      bit |-> "minecraft:netherrack",
      banjo |-> "minecraft:hay_block",
      pling |-> "minecraft:glowstone" ]

\* self.instrument_colors.get(instrument, 'minecraft:oak_planks')
SupportBlock(instrument) ==
    IF instrument \in DOMAIN instrument_colors
    THEN instrument_colors[instrument]
    ELSE "minecraft:oak_planks"

----------------------------------------------------------------------------
(* Coordinate -> index mapping and list assignment                          *)

\* Variant: the row stride taken from length instead of width
get_index_length_stride(x, y, z, width, height, length) ==
    IF x < 0 \/ x >= width \/ y < 0 \/ y >= height \/ z < 0 \/ z >= length
    THEN -1
    ELSE (y * length + z) * length + x

get_index(x, y, z, width, height, length) ==
    IF x < 0 \/ x >= width \/ y < 0 \/ y >= height \/ z < 0 \/ z >= length
    THEN -1
    ELSE (y * length + z) * width + x

\* The position that Python's list[idx] addresses; 0 when it raises IndexError.
ListPos(lst, idx) ==
    LET p == IF idx < 0 THEN Len(lst) + idx + 1 ELSE idx + 1
    IN  IF p \in 1..Len(lst) THEN p ELSE 0

\* Variant: a negative index appends instead of addressing from the end
ListSetAppending(lst, idx, val) ==
    IF idx < 0 THEN Append(lst, val) ELSE [lst EXCEPT ![idx + 1] = val]

\* lst[idx] = val, for an idx that does not raise
ListSet(lst, idx, val) == [lst EXCEPT ![ListPos(lst, idx)] = val]

----------------------------------------------------------------------------
(* Layout planner                                                           *)

\* Variant: 20-tick buckets
BucketCountWide(notes, b) == Cardinality({i \in DOMAIN notes : notes[i].time_ticks \div 20 = b})

\* time_buckets[time_ticks // 10] += 1, then max(time_buckets.values())
BucketCount(notes, b) == Cardinality({i \in DOMAIN notes : notes[i].time_ticks \div 10 = b})

MaxDensity(notes) ==
    IF notes = <<>> THEN 1
    ELSE LET counts == {BucketCount(notes, notes[i].time_ticks \div 10) : i \in DOMAIN notes}
         IN  CHOOSE m \in counts : \A c \in counts : m >= c

NotesPerRow(notes) == Min2(Max2(MaxDensity(notes) * 3, 10), 50)

Rows(notes) == CeilDiv(Len(notes), NotesPerRow(notes))

\* Variant: the widened width is not capped
WidenedWidthUncapped(width, rows, max_width) == width + rows * 3

\* width = min(width + rows * 3, max_width)
WidenedWidth(width, rows, max_width) == Min2(width + rows * 3, max_width)

calculate_optimal_layout(notes, total_ticks, cfg) ==
    LET notes_count == Len(notes)
        notes_per_row == NotesPerRow(notes)
        rows == Rows(notes)
        width0 == Min2(TruncDiv(total_ticks, 10) + 20, cfg.max_width)
        length0 == Min2(rows * 5 + 10, cfg.max_length)
        redistribute == length0 >= cfg.max_length /\ width0 < cfg.max_width
        width == IF redistribute THEN WidenedWidth(width0, rows, cfg.max_width) ELSE width0
        length == IF redistribute THEN Min2(50, cfg.max_length) ELSE length0
    IN  [ width |-> width,
          height |-> cfg.height,
          length |-> length,
          notes_per_row |-> notes_per_row,
          rows |-> rows,
          estimated_redstone |-> notes_count * 2,
          estimated_repeaters |-> notes_count \div 5 + 1,
          total_ticks |-> total_ticks,
          note_count |-> notes_count ]

NoLayout ==
    [ width |-> 0, height |-> 0, length |-> 0, notes_per_row |-> 0, rows |-> 0,
      estimated_redstone |-> 0, estimated_repeaters |-> 0, total_ticks |-> 0,
      note_count |-> 0 ]

DefaultConfig == [height |-> 8, max_width |-> 256, max_length |-> 256]

----------------------------------------------------------------------------
(* Events and the inputs given to the generator                             *)

Ev(t, p, i, pw) == [time_ticks |-> t, pitch |-> p, instrument |-> i, power |-> pw]

\* The four events of the documented scenario
ScenarioNotes ==
    << Ev(0, 10, "harp", 8), Ev(5, 14, "bass", 12),
       Ev(10, 20, "harp", 3), Ev(15, 25, "bell", 9) >>

EventPool ==
    { Ev(0, 10, "harp", 8), Ev(5, 14, "bass", 12), Ev(10, 20, "harp", 3),
      Ev(15, 25, "bell", 9), Ev(20, 30, "theremin", 12) }

RECURSIVE SeqsUpTo(_, _)
SeqsUpTo(S, n) ==
    IF n = 0 THEN {<<>>}
    ELSE LET shorter == SeqsUpTo(S, n - 1)
         IN  shorter \cup {Append(s, e) : s \in {t \in shorter : Len(t) = n - 1}, e \in S}

RampInstruments == <<"harp", "bass", "bell", "theremin">>
RampPowers == <<3, 8, 12>>

\* n events, 4 ticks apart, cycling through instruments and signal strengths
Ramp(n) ==
    [i \in 1..n |-> Ev(4 * (i - 1), 5 * i,
                       RampInstruments[(i % 4) + 1], RampPowers[(i % 3) + 1])]

PipelineInputs ==
    SeqsUpTo(EventPool, MaxShort) \cup {ScenarioNotes} \cup {Ramp(n) : n \in 11..MaxRamp}

PipelineConfigs ==
    { DefaultConfig,
      [height |-> 8, max_width |-> 256, max_length |-> 5],
      [height |-> 4, max_width |-> 8, max_length |-> 256] }

FormatTags == {"litematic", "schematic", "nbt"}

\* Planner inputs: at each of five times, 0, 1, 3 or MaxBurst events
PlannerTimes == <<0, 5, 10, 20, 30>>
BurstSizes == {0, 1, 3, MaxBurst}

EventsAt(t, k) == [i \in 1..k |-> Ev(t, 0, "harp", 8)]

PlannerInputs ==
    { EventsAt(PlannerTimes[1], c[1]) \o EventsAt(PlannerTimes[2], c[2]) \o
      EventsAt(PlannerTimes[3], c[3]) \o EventsAt(PlannerTimes[4], c[4]) \o
      EventsAt(PlannerTimes[5], c[5]) : c \in [1..5 -> BurstSizes] }

PlannerConfigs ==
    { [height |-> 8, max_width |-> mw, max_length |-> ml] :
        mw \in {16, 21, 256}, ml \in {12, 15, 256} }

\* total_ticks = max(times) - min(times), as generate_projection computes it
TotalTicks(notes) ==
    IF notes = <<>> THEN 0 ELSE SeqMax(Times(notes)) - SeqMin(Times(notes))

----------------------------------------------------------------------------
(* Writes into the block-index array                                        *)

\* One assignment block_states[_get_index(x, y, z, ...)] = block_to_index[block];
\* guarded is TRUE when the code wraps it in "if idx < len(block_states)".
W(x, y, z, block, guarded) == [x |-> x, y |-> y, z |-> z, block |-> block, guarded |-> guarded]

WriteIdx(w, lay) == get_index(w.x, w.y, w.z, lay.width, lay.height, lay.length)

\* Does the write execute an assignment?
Executes(lst, w, lay) == ~w.guarded \/ WriteIdx(w, lay) < Len(lst)

\* Python raises IndexError when an executed assignment addresses no element.
WritesRaise(lst, ws, lay) ==
    \E i \in DOMAIN ws : Executes(lst, ws[i], lay) /\ ListPos(lst, WriteIdx(ws[i], lay)) = 0

\* One assignment of the list ws, applied to lst
ApplyOne(lst, w, lay) ==
    IF Executes(lst, w, lay)
    THEN ListSet(lst, WriteIdx(w, lay), block_to_index(w.block))
    ELSE lst

\* The writes ws[lo..hi] applied in order (split in halves: ws[lo..mid] first)
RECURSIVE ApplyRange(_, _, _, _, _)
ApplyRange(lst, ws, lo, hi, lay) ==
    IF lo > hi THEN lst
    ELSE IF lo = hi THEN ApplyOne(lst, ws[lo], lay)
    ELSE LET mid == (lo + hi) \div 2
             first == ApplyRange(lst, ws, lo, mid, lay)
         IN  IF Len(first) >= 0      \* evaluates the first half before the second
             THEN ApplyRange(first, ws, mid + 1, hi, lay)
             ELSE first

\* The array after the writes ws, in program order
ApplyWrites(lst, ws, lay) == ApplyRange(lst, ws, 1, Len(ws), lay)

----------------------------------------------------------------------------
(* Base platform                                                            *)

OnGrid(w) == w.x % 10 = 0 \/ w.z % 10 = 0

\* for x in range(width): for z in range(length): one block at height y
Footprint(lay, y, block) ==
    [i \in 1..(lay.width * lay.length) |->
        W((i - 1) \div lay.length, y, (i - 1) % lay.length, block, FALSE)]

build_base_platform(lay) ==
    Footprint(lay, 0, "minecraft:stone")
      \o SelectSeq(Footprint(lay, 1, "minecraft:quartz_block"), OnGrid)

----------------------------------------------------------------------------
(* Rows: assignment of events, coordinates, devices                         *)

\* sorted(notes, key=time_ticks): Python's sort is stable
RECURSIVE InsertByTime(_, _, _)
InsertByTime(sorted, e, i) ==
    IF i > Len(sorted) THEN Append(sorted, e)
    ELSE IF sorted[i].time_ticks > e.time_ticks
         THEN SubSeq(sorted, 1, i - 1) \o <<e>> \o SubSeq(sorted, i, Len(sorted))
         ELSE InsertByTime(sorted, e, i + 1)

RECURSIVE SortedPrefix(_, _)
SortedPrefix(notes, n) ==
    IF n = 0 THEN <<>> ELSE InsertByTime(SortedPrefix(notes, n - 1), notes[n], 1)

SortedByTime(notes) == SortedPrefix(notes, Len(notes))

\* rows_notes[r]: the sorted events i (0-based) with i // notes_per_row = r < rows
RowNotes(notes, lay, r) ==
    LET sorted == SortedByTime(notes)
    IN  SelectSeq([i \in 1..Len(sorted) |-> [note |-> sorted[i], i |-> i - 1]],
                  LAMBDA e : e.i \div lay.notes_per_row = r /\ r < lay.rows)

RowEvents(notes, lay, r) ==
    LET rn == RowNotes(notes, lay, r) IN [k \in 1..Len(rn) |-> rn[k].note]

base_y == 2
BaseZ(r) == 2 + r * 4

\* x = min(10 + int((time_ticks - min_time) * time_scale), width - 10) with
\* time_scale = (width - 20) / max(time_range, 1). Python computes the product
\* in floating point; for the event lists and widths of this model its
\* truncation equals the truncation of the exact quotient.
NoteX(note, row_notes, lay) ==
    LET times == Times(row_notes)
        min_time == SeqMin(times)
        time_range == SeqMax(times) - min_time
    IN  Min2(10 + TruncDiv((note.time_ticks - min_time) * (lay.width - 20),
                           Max2(time_range, 1)),
             lay.width - 10)

\* z = base_z + (note_idx % 3), note_idx counted from 0
NoteZ(base_z, note_idx) == base_z + (note_idx % 3)

\* Does the row builder place the device of the k-th event (k from 1)?
DevicePlaced(row_notes, k, lay, base_z, lst) ==
    get_index(NoteX(row_notes[k], row_notes, lay), base_y, NoteZ(base_z, k - 1),
              lay.width, lay.height, lay.length) < Len(lst)

NoteWrites(row_notes, k, lay, base_z, lst) ==
    LET note == row_notes[k]
        x == NoteX(note, row_notes, lay)
        y == base_y
        z == NoteZ(base_z, k - 1)
        support_block == SupportBlock(note.instrument)
    IN  IF ~DevicePlaced(row_notes, k, lay, base_z, lst) THEN <<>>
        ELSE <<W(x, y, z, "minecraft:note_block", FALSE)>>
             \o (IF InPalette(support_block)
                 THEN <<W(x, y - 1, z, support_block, FALSE)>> ELSE <<>>)
             \o <<W(x, y - 2, z, "minecraft:redstone_wire", FALSE)>>
             \o (IF note.power > 10
                 THEN <<W(x - 1, y - 2, z, "minecraft:redstone_block", FALSE)>>
                 ELSE IF note.power > 5
                 THEN <<W(x - 1, y - 2, z, "minecraft:redstone_torch[lit=true]", FALSE)>>
                 ELSE <<>>)

RECURSIVE RowWritesUpTo(_, _, _, _, _)
RowWritesUpTo(row_notes, n, lay, base_z, lst) ==
    IF n = 0 THEN <<>>
    ELSE RowWritesUpTo(row_notes, n - 1, lay, base_z, lst)
           \o NoteWrites(row_notes, n, lay, base_z, lst)

\* The writes of the device loop of _build_redstone_music_row
build_redstone_music_row(row_notes, lay, base_z, lst) ==
    RowWritesUpTo(SortedByTime(row_notes), Len(row_notes), lay, base_z, lst)

TileEntity(note, x, y, z) ==
    [ id |-> "minecraft:noteblock", x |-> x, y |-> y, z |-> z,
      note |-> note.pitch % 25, instrument |-> note.instrument, powered |-> FALSE ]

\* The block entities the device loop appends, in placement order
RowTileEntities(row_notes, lay, base_z, lst) ==
    LET sorted == SortedByTime(row_notes)
        all == [k \in 1..Len(sorted) |->
                  [ placed |-> DevicePlaced(sorted, k, lay, base_z, lst),
                    te |-> TileEntity(sorted[k], NoteX(sorted[k], sorted, lay),
                                      base_y, NoteZ(base_z, k - 1)) ]]
        kept == SelectSeq(all, LAMBDA e : e.placed)
    IN  [k \in 1..Len(kept) |-> kept[k].te]

----------------------------------------------------------------------------
(* Bus and row clock                                                        *)

InPaletteWrite(w) == InPalette(w.block)

build_redstone_clock(x, y, z) ==
    SelectSeq(
      << W(x, y, z, "minecraft:redstone_block", TRUE),
         W(x + 1, y, z, "minecraft:redstone_wire", TRUE),
         W(x + 2, y, z, "minecraft:redstone_wire", TRUE),
         W(x + 3, y, z, "minecraft:repeater[facing=south,delay=1,locked=false,powered=false]", TRUE),
         W(x + 4, y, z, "minecraft:redstone_wire", TRUE),
         W(x + 5, y, z, "minecraft:redstone_torch[lit=true]", TRUE) >>,
      InPaletteWrite)

BusY == base_y - 3
BusZ(base_z) == base_z + 1

NotePositions(row_notes, lay) ==
    [k \in 1..Len(row_notes) |-> NoteX(row_notes[k], row_notes, lay)]

Connectors(x, bus_y, bus_z) ==
    << W(x, bus_y + 1, bus_z, "minecraft:redstone_wire", TRUE),
       W(x, bus_y + 2, bus_z, "minecraft:redstone_wire", TRUE),
       W(x, bus_y + 1, bus_z - 1, "minecraft:redstone_wire", TRUE),
       W(x, bus_y + 1, bus_z, "minecraft:redstone_wire", TRUE) >>

RECURSIVE ConnectorsUpTo(_, _, _, _)
ConnectorsUpTo(positions, n, bus_y, bus_z) ==
    IF n = 0 THEN <<>>
    ELSE ConnectorsUpTo(positions, n - 1, bus_y, bus_z)
           \o Connectors(positions[n], bus_y, bus_z)

build_redstone_bus(row_notes, lay, base_z) ==
    IF Len(row_notes) < 2 THEN <<>>
    ELSE LET bus_y == BusY
             bus_z == BusZ(base_z)
             note_positions == NotePositions(row_notes, lay)
             min_x == SeqMin(note_positions)
             max_x == SeqMax(note_positions)
             clock_x == min_x - 2
         IN  [i \in 1..(max_x - min_x + 1) |->
                 W(min_x + i - 1, bus_y, bus_z, "minecraft:redstone_wire", TRUE)]
             \o ConnectorsUpTo(note_positions, Len(note_positions), bus_y, bus_z)
             \o (IF clock_x >= 0 THEN build_redstone_clock(clock_x, bus_y, bus_z) ELSE <<>>)

----------------------------------------------------------------------------
(* Global wiring and decoration                                             *)

build_global_redstone_system(lay) ==
    LET power_y == 1
        clock_x == 5
        clock_z == lay.length \div 2
        clock_y == 1
        nx == CeilDiv(lay.width, 5)     \* len(range(0, width, 5))
    IN  [i \in 1..(2 * nx) |->
            W(5 * ((i - 1) \div 2), power_y,
              IF (i - 1) % 2 = 0 THEN 2 ELSE lay.length - 3,
              "minecraft:redstone_block", FALSE)]
        \o SelectSeq(
             << W(clock_x, clock_y, clock_z, "minecraft:redstone_block", TRUE),
                W(clock_x + 1, clock_y, clock_z, "minecraft:redstone_wire", TRUE),
                W(clock_x + 2, clock_y, clock_z, "minecraft:repeater[facing=south,delay=4,locked=false,powered=false]", TRUE),
                W(clock_x + 3, clock_y, clock_z, "minecraft:redstone_wire", TRUE),
                W(clock_x + 4, clock_y, clock_z, "minecraft:redstone_torch[lit=true]", TRUE),
                W(clock_x, clock_y + 1, clock_z, "minecraft:redstone_wire", TRUE),
                W(clock_x, clock_y + 1, clock_z + 1, "minecraft:redstone_wire", TRUE),
                W(clock_x, clock_y + 1, clock_z - 1, "minecraft:redstone_wire", TRUE) >>,
             InPaletteWrite)

\* len("REDSTONE MUSIC")
TitleLen == 14

\* len(str(n)) for n >= 0
RECURSIVE DecDigits(_)
DecDigits(n) == IF n < 10 THEN 1 ELSE 1 + DecDigits(n \div 10)

\* len(f"{note_count} NOTES")
CountTextLen(note_count) == DecDigits(note_count) + 6

\* for i in range(n): if i < width: one block at (i+5, y, z)
Label(n, lay, y, z, block) ==
    [i \in 1..Min2(n, Max2(lay.width, 0)) |-> W(i - 1 + 5, y, z, block, FALSE)]

add_decoration_and_labels(lay, note_count) ==
    LET info_y == lay.height - 1
        info_z == lay.length \div 2
    IN  Label(TitleLen, lay, info_y, info_z, "minecraft:glowstone")
        \o Label(CountTextLen(note_count), lay, info_y - 1, info_z, "minecraft:sea_lantern")
        \o [i \in 1..8 |->
              W(IF ((i - 1) \div 2) % 2 = 0 THEN 0 ELSE lay.width - 1,
                IF (i - 1) \div 4 = 0 THEN 0 ELSE lay.height - 1,
                IF (i - 1) % 2 = 0 THEN 0 ELSE lay.length - 1,
                "minecraft:glowstone", FALSE)]

----------------------------------------------------------------------------
(* generate_projection                                                      *)

create_error_stats ==
    [ name |-> "Error",
      dimensions |-> [width |-> 0, height |-> 0, length |-> 0],
      note_blocks |-> 0,
      redstone_dust |-> 0,
      repeaters |-> 0,
      redstone_length |-> 0,
      duration |-> [num |-> 0, den |-> 1],
      format |-> "error",
      file_path |-> "",
      success |-> FALSE,
      file_size |-> 0 ]

\* The state right after the call, before any statement has run
CallState(notes, fmt, cfg) ==
    /\ pc = "call"
    /\ redstone_notes = notes
    /\ format_type = fmt
    /\ config = cfg
    /\ layout = NoLayout
    /\ file_path = ""
    /\ block_states = <<>>
    /\ tile_entities = <<>>
    /\ row_idx = 0
    /\ stats = <<>>
    /\ exc = "none"
    /\ fs = <<>>
    /\ litematic_data = <<>>
    /\ result = <<>>
    /\ probe = <<>>

Init ==
    \E notes \in PipelineInputs, fmt \in FormatTags, cfg \in PipelineConfigs :
        CallState(notes, fmt, cfg)

\* Variant: no early return for an empty list
CheckInputNoEarlyReturn ==
    /\ pc = "call"
    /\ pc' = "stats"
    /\ UNCHANGED <<redstone_notes, format_type, config, layout, file_path, block_states,
                   tile_entities, row_idx, stats, exc, fs, litematic_data, result, probe>>

\* if not redstone_notes: return self._create_error_stats()
CheckInput ==
    /\ pc = "call"
    /\ IF redstone_notes = <<>>
       THEN /\ result' = <<create_error_stats>>
            /\ pc' = "returned"
       ELSE /\ pc' = "stats"
            /\ UNCHANGED result
    /\ UNCHANGED <<redstone_notes, format_type, config, layout, file_path, block_states,
                   tile_entities, row_idx, stats, exc, fs, litematic_data, probe>>

\* total_seconds = total_ticks / 20.0; the density print divides by total_seconds
ComputeStats ==
    /\ pc = "stats"
    /\ IF TotalTicks(redstone_notes) = 0
       THEN /\ exc' = "ZeroDivisionError"
            /\ pc' = "raised"
       ELSE /\ pc' = "layout"
            /\ UNCHANGED exc
    /\ UNCHANGED <<redstone_notes, format_type, config, layout, file_path, block_states,
                   tile_entities, row_idx, stats, fs, litematic_data, result, probe>>

CalculateLayout ==
    /\ pc = "layout"
    /\ layout' = calculate_optimal_layout(redstone_notes, TotalTicks(redstone_notes), config)
    /\ pc' = "dispatch"
    /\ UNCHANGED <<redstone_notes, format_type, config, file_path, block_states,
                   tile_entities, row_idx, stats, exc, fs, litematic_data, result, probe>>

\* The output path is "out"; each generator appends its suffix.
Dispatch ==
    /\ pc = "dispatch"
    /\ IF format_type = "litematic"
       THEN /\ file_path' = "out.litematic"
            /\ pc' = "init"
            /\ UNCHANGED result
       ELSE IF format_type = "schematic"
       THEN /\ file_path' = "out.schematic"
            /\ pc' = "init"
            /\ UNCHANGED result
       ELSE /\ result' = <<create_error_stats>>
            /\ pc' = "returned"
            /\ UNCHANGED file_path
    /\ UNCHANGED <<redstone_notes, format_type, config, layout, block_states,
                   tile_entities, row_idx, stats, exc, fs, litematic_data, probe>>

----------------------------------------------------------------------------
(* _generate_complete_litematic                                             *)

\* [0] * n, as a list value
Zeros(n) == SubSeq([i \in 1..n |-> 0], 1, n)

InitVolume ==
    /\ pc = "init"
    /\ block_states' = Zeros(layout.width * layout.height * layout.length)
    /\ tile_entities' = <<>>
    /\ pc' = "platform"
    /\ UNCHANGED <<redstone_notes, format_type, config, layout, file_path,
                   row_idx, stats, exc, fs, litematic_data, result, probe>>

\* One builder step: the writes ws either raise (caught by the generator's
\* except clause) or are applied in order.
BuilderStep(ws, next_pc) ==
    IF WritesRaise(block_states, ws, layout)
    THEN /\ exc' = "IndexError"
         /\ pc' = "except"
         /\ UNCHANGED block_states
    ELSE /\ block_states' = ApplyWrites(block_states, ws, layout)
         /\ pc' = next_pc
         /\ UNCHANGED exc

BuildBasePlatform ==
    /\ pc = "platform"
    /\ BuilderStep(build_base_platform(layout), "row")
    /\ row_idx' = 0
    /\ UNCHANGED <<redstone_notes, format_type, config, layout, file_path,
                   tile_entities, stats, fs, litematic_data, result, probe>>

CurrentRow == SortedByTime(RowEvents(redstone_notes, layout, row_idx))

\* The device loop of _build_redstone_music_row for row row_idx
BuildRowDevices ==
    /\ pc = "row"
    /\ LET ws == build_redstone_music_row(CurrentRow, layout, BaseZ(row_idx), block_states)
       IN  /\ BuilderStep(ws, "bus")
           /\ tile_entities' =
                IF WritesRaise(block_states, ws, layout) THEN tile_entities
                ELSE tile_entities
                       \o RowTileEntities(CurrentRow, layout, BaseZ(row_idx), block_states)
    /\ UNCHANGED <<redstone_notes, format_type, config, layout, file_path,
                   row_idx, stats, fs, litematic_data, result, probe>>

\* _build_redstone_bus for row row_idx, then the next iteration of the row loop
BuildRedstoneBus ==
    /\ pc = "bus"
    /\ BuilderStep(build_redstone_bus(CurrentRow, layout, BaseZ(row_idx)),
                   IF row_idx + 1 < layout.rows THEN "row" ELSE "global")
    /\ row_idx' = row_idx + 1
    /\ UNCHANGED <<redstone_notes, format_type, config, layout, file_path,
                   tile_entities, stats, fs, litematic_data, result, probe>>

BuildGlobalRedstoneSystem ==
    /\ pc = "global"
    /\ BuilderStep(build_global_redstone_system(layout), "decoration")
    /\ UNCHANGED <<redstone_notes, format_type, config, layout, file_path,
                   tile_entities, row_idx, stats, fs, litematic_data, result, probe>>

AddDecorationAndLabels ==
    /\ pc = "decoration"
    /\ BuilderStep(add_decoration_and_labels(layout, Len(redstone_notes)), "serialize")
    /\ UNCHANGED <<redstone_notes, format_type, config, layout, file_path,
                   tile_entities, row_idx, stats, fs, litematic_data, result, probe>>

\* _create_litematic_nbt_data: the region record, as JSON, gzip-compressed
create_litematic_nbt_data(states, entities, lay) ==
    [ Size |-> [x |-> lay.width, y |-> lay.height, z |-> lay.length],
      TotalVolume |-> lay.width * lay.height * lay.length,
      BlockStates |-> states,
      TileEntities |-> entities,
      encoding |-> <<"json", "gzip">> ]

\* Variant: a serializer that clears the first cell of the array it is handed
CreateLitematicNbtDataClearing ==
    /\ pc = "serialize"
    /\ block_states' = ListSet(block_states, 0, 0)
    /\ litematic_data' = <<create_litematic_nbt_data(block_states', tile_entities, layout)>>
    /\ pc' = "write"
    /\ UNCHANGED <<redstone_notes, format_type, config, layout, file_path,
                   tile_entities, row_idx, stats, exc, fs, result, probe>>

CreateLitematicNbtData ==
    /\ pc = "serialize"
    /\ litematic_data' = <<create_litematic_nbt_data(block_states, tile_entities, layout)>>
    /\ pc' = "write"
    /\ UNCHANGED <<redstone_notes, format_type, config, layout, file_path, block_states,
                   tile_entities, row_idx, stats, exc, fs, result, probe>>

\* list.count(0)
CountZeros(lst) == Cardinality({i \in DOMAIN lst : lst[i] = 0})

AfterGenerator == IF format_type = "schematic" THEN "schematic_return" ELSE "final"

\* gzip.open(output_path, 'wb') and f.write succeed; the file then exists
WriteFile ==
    /\ pc = "write"
    /\ \E kb \in 0..MaxFileKB :
         fs' = <<[ path |-> file_path, kb |-> kb,
                   encoding |-> Append(litematic_data[1].encoding, "gzip"),
                   block_states_len |-> Len(litematic_data[1].BlockStates) ]>>
    /\ stats' = IF fs' # <<>> /\ fs'[1].path = file_path
                THEN <<[ success |-> TRUE,
                         blocks_placed |-> layout.width * layout.height * layout.length
                                             - CountZeros(block_states) ]>>
                ELSE <<[success |-> FALSE, blocks_placed |-> 0]>>
    /\ pc' = AfterGenerator
    /\ UNCHANGED <<redstone_notes, format_type, config, layout, file_path, block_states,
                   tile_entities, row_idx, exc, litematic_data, result, probe>>

\* gzip.open or f.write raises (missing directory, no permission, disk full)
WriteFileFails ==
    /\ pc = "write"
    /\ exc' = "OSError"
    /\ pc' = "except"
    /\ UNCHANGED <<redstone_notes, format_type, config, layout, file_path, block_states,
                   tile_entities, row_idx, stats, fs, litematic_data, result, probe>>

\* except Exception as e: return {'success': False, 'error': str(e)}
HandleException ==
    /\ pc = "except"
    /\ stats' = <<[success |-> FALSE, blocks_placed |-> 0]>>
    /\ pc' = AfterGenerator
    /\ UNCHANGED <<redstone_notes, format_type, config, layout, file_path, block_states,
                   tile_entities, row_idx, exc, fs, litematic_data, result, probe>>

EndsWithLitematic(path) == path = "out.litematic"

\* _generate_complete_schematic after the litematic generator has returned
SchematicReturn ==
    /\ pc = "schematic_return"
    /\ IF stats[1].success /\ EndsWithLitematic(file_path)
       THEN /\ fs' = fs \o <<[fs[1] EXCEPT !.path = "out.schematic"]>>
            /\ stats' = <<[success |-> TRUE, blocks_placed |-> 0]>>
       ELSE UNCHANGED <<fs, stats>>
    /\ pc' = "final"
    /\ UNCHANGED <<redstone_notes, format_type, config, layout, file_path, block_states,
                   tile_entities, row_idx, exc, litematic_data, result, probe>>

FileExists(path) == \E i \in DOMAIN fs : fs[i].path = path
FileKB(path) == fs[CHOOSE i \in DOMAIN fs : fs[i].path = path].kb

final_stats ==
    [ name |-> "RedstoneMusic",
      dimensions |-> [width |-> layout.width, height |-> layout.height,
                      length |-> layout.length],
      note_blocks |-> Len(redstone_notes),
      redstone_dust |-> layout.estimated_redstone,
      repeaters |-> layout.estimated_repeaters,
      redstone_length |-> TotalTicks(redstone_notes),
      duration |-> [num |-> TotalTicks(redstone_notes), den |-> 20],
      rows |-> layout.rows,
      notes_per_row |-> layout.notes_per_row,
      format |-> format_type,
      file_path |-> file_path,
      success |-> stats[1].success,
      file_size |-> IF FileExists(file_path) THEN FileKB(file_path) ELSE 0 ]

FinalStats ==
    /\ pc = "final"
    /\ result' = <<final_stats>>
    /\ pc' = "returned"
    /\ UNCHANGED <<redstone_notes, format_type, config, layout, file_path, block_states,
                   tile_entities, row_idx, stats, exc, fs, litematic_data, probe>>

Next ==
    \/ CheckInput
    \/ ComputeStats
    \/ CalculateLayout
    \/ Dispatch
    \/ InitVolume
    \/ BuildBasePlatform
    \/ BuildRowDevices
    \/ BuildRedstoneBus
    \/ BuildGlobalRedstoneSystem
    \/ AddDecorationAndLabels
    \/ CreateLitematicNbtData
    \/ WriteFile
    \/ WriteFileFails
    \/ HandleException
    \/ SchematicReturn
    \/ FinalStats

Spec == Init /\ [][Next]_vars

----------------------------------------------------------------------------
(* The planner applied to planner inputs                                    *)

InitLayout ==
    \E notes \in PlannerInputs, cfg \in PlannerConfigs :
        CallState(notes, "litematic", cfg)

\* generate_projection up to and including the call of the planner; the
\* planner itself is also defined for total_ticks = 0
PlanLayout ==
    /\ pc = "call"
    /\ layout' = calculate_optimal_layout(redstone_notes, TotalTicks(redstone_notes), config)
    /\ pc' = "planned"
    /\ UNCHANGED <<redstone_notes, format_type, config, file_path, block_states,
                   tile_entities, row_idx, stats, exc, fs, litematic_data, result, probe>>

NextLayout == PlanLayout

SpecLayout == InitLayout /\ [][NextLayout]_vars

----------------------------------------------------------------------------
(* The block-index array written and read back through _get_index:          *)
(* a volume of small dimensions with its base platform built, then written  *)
(* at in-range coordinates.                                                 *)

ProbeValues == {2, 3}

Dims(w, h, l) == [NoLayout EXCEPT !.width = w, !.height = h, !.length = l]

InitIndex ==
    \E w \in 1..MaxDim, h \in 1..MaxDim, l \in 1..MaxDim :
        /\ pc = "buffer"
        /\ redstone_notes = <<>>
        /\ format_type = "litematic"
        /\ config = DefaultConfig
        /\ layout = Dims(w, h, l)
        /\ file_path = ""
        /\ block_states = ApplyWrites(Zeros(w * h * l), build_base_platform(Dims(w, h, l)),
                                      Dims(w, h, l))
        /\ tile_entities = <<>>
        /\ row_idx = 0
        /\ stats = <<>>
        /\ exc = "none"
        /\ fs = <<>>
        /\ litematic_data = <<>>
        /\ result = <<>>
        /\ probe = <<>>

\* block_states[self._get_index(x, y, z, width, height, length)]
CellAt(lst, x, y, z, lay) ==
    lst[ListPos(lst, get_index(x, y, z, lay.width, lay.height, lay.length))]

\* idx = self._get_index(x, y, z, ...); block_states[idx] = v, at an in-range coordinate
SetCell ==
    /\ pc = "buffer"
    /\ row_idx < MaxProbes
    /\ \E x \in 0..(layout.width - 1), y \in 0..(layout.height - 1),
          z \in 0..(layout.length - 1), v \in ProbeValues :
         /\ block_states' = ListSet(block_states,
                                    get_index(x, y, z, layout.width, layout.height,
                                              layout.length), v)
         /\ probe' = <<[x |-> x, y |-> y, z |-> z, v |-> v]>>
    /\ row_idx' = row_idx + 1
    /\ UNCHANGED <<pc, redstone_notes, format_type, config, layout, file_path,
                   tile_entities, stats, exc, fs, litematic_data, result>>

NextIndex == SetCell

SpecIndex == InitIndex /\ [][NextIndex]_vars

----------------------------------------------------------------------------
(* Properties                                                               *)

Volume(lay) == lay.width * lay.height * lay.length

AllCoords(lay) ==
    (0..(lay.width - 1)) \X (0..(lay.height - 1)) \X (0..(lay.length - 1))

Idx(c, lay) == get_index(c[1], c[2], c[3], lay.width, lay.height, lay.length)

WireIdx == block_to_index("minecraft:redstone_wire")

\* The positions at which the generation call mutates the volume
PlacementPCs == {"platform", "row", "bus", "global", "decoration"}

\* The writes the placement step at the current position attempts
StepWrites ==
    CASE pc = "platform" -> build_base_platform(layout)
      [] pc = "row" -> build_redstone_music_row(CurrentRow, layout, BaseZ(row_idx), block_states)
      [] pc = "bus" -> build_redstone_bus(CurrentRow, layout, BaseZ(row_idx))
      [] pc = "global" -> build_global_redstone_system(layout)
      [] pc = "decoration" -> add_decoration_and_labels(layout, Len(redstone_notes))
      [] OTHER -> <<>>

\* Positions of the array addressed by the in-range writes of ws
InRangeTargets(ws, lay) ==
    {WriteIdx(ws[i], lay) + 1 : i \in {j \in DOMAIN ws : WriteIdx(ws[j], lay) >= 0}}

\* Every cell that no in-range write of the step addresses keeps its value
UntargetedCellsKept ==
    LET targets == InRangeTargets(StepWrites, layout)
    IN  \A k \in DOMAIN block_states :
           k \notin targets => block_states'[k] = block_states[k]

\* C1: in every placement step, a write attempted at an out-of-range
\* coordinate does not raise and changes no in-range cell: every cell that no
\* in-range write of the step addresses keeps its value, the last cell included.
C1_OutOfRangeWritesChangeNothing ==
    [][(pc \in PlacementPCs) => (exc' = "none" /\ UntargetedCellsKept)]_vars

NumericFieldsZero(r) ==
    /\ r.dimensions.width = 0
    /\ r.dimensions.height = 0
    /\ r.dimensions.length = 0
    /\ r.note_blocks = 0
    /\ r.redstone_dust = 0
    /\ r.repeaters = 0
    /\ r.redstone_length = 0
    /\ r.duration.num = 0
    /\ r.file_size = 0

\* C2: whenever generate_projection returns a result with success = false,
\* every numeric field of the result is zero.
C2_FailureResultIsZeroed ==
    (pc = "returned" /\ ~result[1].success) => NumericFieldsZero(result[1])

IndexInjective(lay) ==
    /\ \A c \in AllCoords(lay) : Idx(c, lay) \in 0..(Volume(lay) - 1)
    /\ \A c1, c2 \in AllCoords(lay) : c1 # c2 => Idx(c1, lay) # Idx(c2, lay)

\* The last write is read back and every other coordinate keeps its cell
SetGetHolds ==
    /\ CellAt(block_states', probe'[1].x, probe'[1].y, probe'[1].z, layout) = probe'[1].v
    /\ \A c \in AllCoords(layout) :
          c # <<probe'[1].x, probe'[1].y, probe'[1].z>> =>
             CellAt(block_states', c[1], c[2], c[3], layout)
               = CellAt(block_states, c[1], c[2], c[3], layout)

\* C3: the mapping idx = (y*length + z)*width + x is injective on the in-range
\* coordinates and maps into [0, width*height*length); a value written at an
\* in-range coordinate is read back there, and no other coordinate's cell changes.
C3_IndexInjectiveAndSetGet ==
    /\ []((pc = "buffer" /\ row_idx = 0) => IndexInjective(layout))
    /\ [][(pc = "buffer") => SetGetHolds]_vars

\* A write at the last cell of a volume with width # length, above the
\* platform: the value is read back and the platform below is still in place.
C3_Witness ==
    /\ pc = "buffer"
    /\ row_idx = 1
    /\ layout.width # layout.length
    /\ layout.height > 2
    /\ probe[1].x = layout.width - 1
    /\ probe[1].y = layout.height - 1
    /\ probe[1].z = layout.length - 1
    /\ CellAt(block_states, probe[1].x, probe[1].y, probe[1].z, layout) = probe[1].v
    /\ CellAt(block_states, probe[1].x, 0, probe[1].z, layout)
         = block_to_index("minecraft:stone")

\* C4: for every non-empty event list the planned layout has notes_per_row in
\* [10,50], rows is the ceiling of event_count / notes_per_row (the least
\* number of rows that holds all events), and rows * notes_per_row >= event_count.
C4_RowsCoverEvents ==
    (pc = "planned" /\ redstone_notes # <<>>) =>
        /\ layout.notes_per_row \in 10..50
        /\ layout.rows * layout.notes_per_row >= Len(redstone_notes)
        /\ (layout.rows - 1) * layout.notes_per_row < Len(redstone_notes)

\* A layout with the row capacity at its cap, two rows, the last one not full
C4_Witness ==
    /\ pc = "planned"
    /\ layout.notes_per_row = 50
    /\ layout.rows = 2
    /\ Len(redstone_notes) < 100

\* C5: every planned layout has width <= max_width and length <= max_length,
\* also after the redistribution step has widened it.
C5_LayoutWithinMaxima ==
    pc = "planned" =>
        /\ layout.width <= config.max_width
        /\ layout.length <= config.max_length

\* Length saturated, the width had headroom and was widened up to its cap
C5_Witness ==
    /\ pc = "planned"
    /\ Min2(layout.rows * 5 + 10, config.max_length) >= config.max_length
    /\ TruncDiv(TotalTicks(redstone_notes), 10) + 20 < config.max_width
    /\ TruncDiv(TotalTicks(redstone_notes), 10) + 20 + layout.rows * 3 > config.max_width
    /\ layout.width = config.max_width
    /\ layout.length = config.max_length

\* C6: called with an empty event list, generate_projection returns a result
\* with success = false and all numeric fields zero; no layout is computed, no
\* builder runs and no file is created or written, whatever the format tag and
\* the configuration.
C6_EmptyListZeroedResult ==
    (redstone_notes = <<>> /\ pc # "call") =>
        /\ pc = "returned"
        /\ exc = "none"
        /\ Len(result) = 1
        /\ ~result[1].success
        /\ NumericFieldsZero(result[1])
        /\ layout = NoLayout
        /\ block_states = <<>>
        /\ tile_entities = <<>>
        /\ litematic_data = <<>>
        /\ stats = <<>>
        /\ fs = <<>>

C6_Witness ==
    /\ redstone_notes = <<>>
    /\ pc = "returned"
    /\ format_type = "schematic"
    /\ config # DefaultConfig
    /\ result = <<create_error_stats>>

\* The positions of the call at which the block-index array exists
ArrayPCs ==
    PlacementPCs \cup {"serialize", "write", "except", "schematic_return", "final"}

\* C7: the block-index array has exactly width*height*length entries when it is
\* created and after every builder step, and so has the BlockStates array
\* handed to the serializer and written to the file.
C7_ArraySizeFixed ==
    /\ pc \in ArrayPCs => Len(block_states) = Volume(layout)
    /\ litematic_data # <<>> =>
          /\ Len(litematic_data[1].BlockStates) = Volume(layout)
          /\ litematic_data[1].TotalVolume = Len(litematic_data[1].BlockStates)
    /\ \A i \in DOMAIN fs : fs[i].block_states_len = Volume(layout)

\* A two-row volume, some of whose writes were out of range, handed to the file write
C7_Witness ==
    /\ pc = "final"
    /\ layout.rows = 2
    /\ config.max_length = 5
    /\ fs # <<>>
    /\ fs[1].block_states_len = Volume(layout)
    /\ Volume(layout) > 0

\* C8 as stated: for the events at ticks 0, 5, 10, 15 and the default
\* configuration one 10-tick bucket holds all 4 events (max_density = 4), and
\* the planner returns notes_per_row = 12, rows = 1, width = 21, length = 15.
C8_ScenarioAsStated ==
    (redstone_notes = ScenarioNotes /\ config = DefaultConfig /\ layout # NoLayout) =>
        /\ MaxDensity(redstone_notes) = 4
        /\ layout.notes_per_row = 12
        /\ layout.rows = 1
        /\ layout.width = 21
        /\ layout.length = 15

\* C8 amended: the 10-tick buckets [0,10) and [10,20) hold 2 events each
\* (max_density = 2), and the planner returns notes_per_row = 10, rows = 1,
\* width = 21, length = 15.
C8_ScenarioLayout ==
    (redstone_notes = ScenarioNotes /\ config = DefaultConfig /\ layout # NoLayout) =>
        /\ BucketCount(redstone_notes, 0) = 2
        /\ BucketCount(redstone_notes, 1) = 2
        /\ MaxDensity(redstone_notes) = 2
        /\ layout.notes_per_row = 10
        /\ layout.rows = 1
        /\ layout.width = 21
        /\ layout.length = 15

C8_Witness ==
    /\ redstone_notes = ScenarioNotes
    /\ config = DefaultConfig
    /\ pc = "dispatch"
    /\ layout = calculate_optimal_layout(ScenarioNotes, 15, DefaultConfig)

\* The row whose bus has just been finished, when there is one
BusJustFinished == pc \in {"row", "global"} /\ row_idx >= 1
FinishedRow == SortedByTime(RowEvents(redstone_notes, layout, row_idx - 1))
FinishedBaseZ == BaseZ(row_idx - 1)

\* C9: once the bus of a row with at least 2 events is finished, every cell
\* (x, base_y-3, base_z+1) with min_x <= x <= max_x is a cell of the volume and
\* holds redstone wire.
C9_BusLineInVolume ==
    (BusJustFinished /\ Len(FinishedRow) >= 2) =>
        LET xs == NotePositions(FinishedRow, layout)
        IN  \A x \in SeqMin(xs)..SeqMax(xs) :
               LET idx == get_index(x, BusY, BusZ(FinishedBaseZ),
                                    layout.width, layout.height, layout.length)
               IN  idx >= 0 /\ block_states[idx + 1] = WireIdx

\* C10: after a row is finished (devices and bus), below every device of the
\* row that was placed at an in-range coordinate lies the support material of
\* its instrument, oak planks for an instrument outside the lookup.
C10_SupportBelowDevice ==
    BusJustFinished =>
        \A k \in DOMAIN FinishedRow :
           LET x == NoteX(FinishedRow[k], FinishedRow, layout)
               z == NoteZ(FinishedBaseZ, k - 1)
               support == SupportBlock(FinishedRow[k].instrument)
           IN  get_index(x, base_y, z, layout.width, layout.height, layout.length) >= 0
                 => /\ InPalette(support)
                    /\ CellAt(block_states, x, base_y - 1, z, layout) = block_to_index(support)

\* The x coordinates the device loop computes for the row being built
CurrentRowXs == NotePositions(CurrentRow, layout)

\* C11: for every layout and every row, the x coordinate computed for each
\* event of the row satisfies 10 <= x <= width - 10.
C11_XWithinMargins ==
    pc \in {"row", "bus"} =>
        \A k \in DOMAIN CurrentRowXs :
           10 <= CurrentRowXs[k] /\ CurrentRowXs[k] <= layout.width - 10

\* The array positions the writes ws assign, out-of-range writes included
\* (index -1 addresses the last position)
WrittenCells(ws, lst, lay) ==
    {ListPos(lst, WriteIdx(ws[i], lay)) : i \in {j \in DOMAIN ws : Executes(lst, ws[j], lay)}}

\* The writes of row r: its device loop, then its bus and row clock
RowAndBusWrites(r) ==
    LET row_notes == SortedByTime(RowEvents(redstone_notes, layout, r))
    IN  build_redstone_music_row(row_notes, layout, BaseZ(r), block_states)
          \o build_redstone_bus(row_notes, layout, BaseZ(r))

\* Positions written by the row and bus builders of all rows
RowCells ==
    UNION {WrittenCells(RowAndBusWrites(r), block_states, layout) : r \in 0..(layout.rows - 1)}

\* Positions written by the global wiring builder and the decoration builder
LaterCells ==
    WrittenCells(build_global_redstone_system(layout), block_states, layout)
      \cup WrittenCells(add_decoration_and_labels(layout, Len(redstone_notes)),
                        block_states, layout)

\* C12: when all rows are finished, the cells written by the row and bus
\* builders are disjoint from the cells the global wiring builder and the
\* decoration builder write afterwards.
C12_RowCellsNotOverwritten ==
    pc = "global" => RowCells \cap LaterCells = {}

\* The step changes the block-index array or the block-entity list
MutatesBuffers == block_states' # block_states \/ tile_entities' # tile_entities

\* Positions of the call from the creation of the array to the last builder
BuildPCs == {"init"} \cup PlacementPCs

\* Positions of the call once serialization has begun or the generator has failed
SerializedPCs == {"serialize", "write", "except", "schematic_return", "final", "returned"}

\* Place of a position in the order platform, row 0 devices, row 0 bus,
\* row 1 devices, ..., global wiring, decoration, serialization
StageRank(p, r, lay) ==
    CASE p = "init" -> 0
      [] p = "platform" -> 1
      [] p = "row" -> 2 + 2 * r
      [] p = "bus" -> 3 + 2 * r
      [] p = "global" -> 2 + 2 * lay.rows
      [] p = "decoration" -> 3 + 2 * lay.rows
      [] OTHER -> 4 + 2 * lay.rows

\* C13: the block-index array and the block-entity list are mutated only by
\* the builders, in the order platform, rows in increasing row index (devices
\* before bus), global wiring, decoration; block entities are appended only by
\* a row's device loop; serialization starts only from the finished
\* decoration step, and once it has begun nothing is mutated.
C13_StrictBuildOrder ==
    [][ /\ MutatesBuffers => pc \in BuildPCs
        /\ tile_entities' # tile_entities => pc \in {"init", "row"}
        /\ pc \in BuildPCs => /\ pc' \in PlacementPCs \cup {"serialize", "except"}
                              /\ StageRank(pc', row_idx', layout') > StageRank(pc, row_idx, layout)
        /\ pc \in {"row", "bus"} => row_idx < layout.rows
        /\ pc' = "serialize" => pc = "decoration"
        /\ pc \in SerializedPCs => /\ pc' \in SerializedPCs
                                   /\ ~MutatesBuffers ]_vars

\* A two-row run after the file write: the array and the block-entity list
\* are still the ones that were serialized, one block entity per event
C13_Witness ==
    /\ pc = "returned"
    /\ layout.rows = 2
    /\ result[1].success
    /\ Len(tile_entities) = Len(redstone_notes)
    /\ litematic_data[1].BlockStates = block_states
    /\ litematic_data[1].TileEntities = tile_entities

\* C14: for every non-empty event list generate_projection returns a result
\* record and never raises out of the call, also when all events share one
\* time_ticks (total_ticks = 0), for every format tag.
C14_NeverRaises ==
    redstone_notes # <<>> => (pc # "raised" /\ (pc = "returned" => Len(result) = 1))

NoteBlockIdx == block_to_index("minecraft:note_block")

\* The block entity lies inside the volume and its cell holds the device block
EntityOnDevice(te) ==
    /\ get_index(te.x, te.y, te.z, layout.width, layout.height, layout.length) >= 0
    /\ CellAt(block_states, te.x, te.y, te.z, layout) = NoteBlockIdx

\* C15: when the device loop of a row has finished, every block entity it
\* appended has coordinates inside [0,width) x [0,height) x [0,length) and the
\* cell at its coordinates holds the device block, for every configuration.
C15_EntitiesOnDevices ==
    pc = "bus" =>
        \A i \in DOMAIN tile_entities :
           i > Len(tile_entities) - Len(CurrentRow) => EntityOnDevice(tile_entities[i])

====
